---- MODULE Spec2Model ----
(***************************************************************************)
(* Model of the Polygon.io bulk downloader (src/get_1min_data_polygon.py): *)
(* the fixed-duration date chunker, the per-ticker download task, the      *)
(* progress file and the thread pool that runs the tasks; and of the FX    *)
(* loader script (src/data_loading/ohlc_data_loader.py).                   *)
(*                                                                         *)
(* Dates are day ordinals (datetime.toordinal() shifted so that the first  *)
(* day of the modelled calendar is 0); adding timedelta(days=n) is +n.     *)
(***************************************************************************)
EXTENDS Integers, Sequences, FiniteSets, TLC

(* ------------------------------ bounds -------------------------------- *)
\* number of pool threads (max_workers of download_all_data)
NWorkers == 2
\* number of process starts explored (a start follows an exit or a kill)
MaxRuns == 2
\* the requested range [RangeStart, RangeEnd] of download_ticker_data
RangeStart == 0
RangeEnd == 60
\* last day of the calendar the chunker is exercised on
MaxDay == 100
\* longest accumulated frame the combine step is exercised on
MaxRows == 3
\* rows one response of the service carries at most (the request's `limit`,
\* 50000 in the code, scaled down)
PageLimit == 2

(* -------------------------- program constants ------------------------- *)
\* timedelta(days=45) in generate_date_chunks
ChunkDays == 45

Symbols == {"A", "B"}
Workers == 1..NWorkers
None == "none"
\* self.lock when no thread holds it
Unlocked == 0
\* tmp[w] when no `+=` of w is between its read and its write
NotRead == -1
\* the ticker list without its set(): a ticker the literal list names twice
\* is returned twice
TickerListRaw == <<"A", "B", "A">>
\* sorted(list(set(all_tickers))) of get_russell3000_tickers on the full list
TickerOrder == <<"A", "B">>
StatKeys == {"total_api_calls", "successful_calls", "failed_calls", "total_data_points"}

(* ---------------------------------------------------------------------- *)
(* generate_date_chunks: the while loop, one iteration per unfolding.     *)
(* ---------------------------------------------------------------------- *)
Min(a, b) == IF a < b THEN a ELSE b

\* the loop condition of generate_date_chunks
ChunkLoopCond(current, end) == current < end

\* a chunk of ChunkDays days counted inclusively (not what the code computes)
ChunkEndInclusive(current, end) == Min(current + ChunkDays - 1, end)

\* chunk_end = min(current + timedelta(days=45), end)
ChunkEnd(current, end) == Min(current + ChunkDays, end)

RECURSIVE ChunkLoop(_, _, _)
ChunkLoop(current, end, chunks) ==
    IF ChunkLoopCond(current, end)
    THEN ChunkLoop(ChunkEnd(current, end) + 1, end,
                   Append(chunks, <<current, ChunkEnd(current, end)>>))
    ELSE chunks

generate_date_chunks(start, end) == ChunkLoop(start, end, <<>>)

\* the days a list of chunks covers
DaysOf(chunks) ==
    UNION {chunks[i][1]..chunks[i][2] : i \in 1..Len(chunks)}

(* ---------------------------------------------------------------------- *)
(* The dates of the chunker as it reads and writes them: a date string    *)
(* "%Y-%m-%d" is <<year, month, day>>, and day 0 is January 1 of          *)
(* EpochYear.                                                             *)
(* ---------------------------------------------------------------------- *)
EpochYear == 2024

IsLeap(y) == (y % 4 = 0 /\ y % 100 # 0) \/ y % 400 = 0

DaysInMonth(y, m) ==
    IF m = 2 THEN (IF IsLeap(y) THEN 29 ELSE 28)
    ELSE IF m \in {4, 6, 9, 11} THEN 30 ELSE 31

RECURSIVE DaysBeforeMonth(_, _)
DaysBeforeMonth(y, m) ==
    IF m = 1 THEN 0 ELSE DaysBeforeMonth(y, m - 1) + DaysInMonth(y, m - 1)

RECURSIVE DaysBeforeYear(_)
DaysBeforeYear(y) ==
    IF y = EpochYear THEN 0
    ELSE DaysBeforeYear(y - 1) + DaysBeforeMonth(y - 1, 12) + DaysInMonth(y - 1, 12)

\* datetime.strptime(date, "%Y-%m-%d") as a day ordinal
strptime(date) ==
    DaysBeforeYear(date[1]) + DaysBeforeMonth(date[1], date[2]) + date[3] - 1

RECURSIVE DateFrom(_, _, _)
DateFrom(y, m, n) ==
    IF n < DaysInMonth(y, m) THEN <<y, m, n + 1>>
    ELSE IF m = 12 THEN DateFrom(y + 1, 1, n - DaysInMonth(y, m))
    ELSE DateFrom(y, m + 1, n - DaysInMonth(y, m))

\* day.strftime("%Y-%m-%d") of a day ordinal
strftime(day) == DateFrom(EpochYear, 1, day)

\* the (start, end) pairs of strings chunks.append receives
ChunkStrings(chunks) ==
    [i \in 1..Len(chunks) |-> <<strftime(chunks[i][1]), strftime(chunks[i][2])>>]

(* ---------------------------------------------------------------------- *)
(* The remote service: the bars it holds for a ticker in a date range.    *)
(* A bar is [t |-> timestamp (a day here), c |-> its prices and volume].  *)
(* By default "A" trades over the whole range and "B" has no bars at all  *)
(* (delisted).                                                            *)
(* ---------------------------------------------------------------------- *)
Bar(t, c) == [t |-> t, c |-> c]

\* svc[s]: the bars the service holds for ticker s (it does not change)
VARIABLE svc

DefaultService ==
    [s \in Symbols |-> IF s = "A" THEN <<Bar(1, 1), Bar(2, 1), Bar(50, 1)>> ELSE <<>>]

ServiceBars(s) == svc[s]

\* the bars of s with chunk_start <= t <= chunk_end, ascending (sort=asc)
ServiceRows(s, chunk) ==
    SelectSeq(ServiceBars(s), LAMBDA b : chunk[1] <= b.t /\ b.t <= chunk[2])

(* ---------------------------------------------------------------------- *)
(* pandas: concat, sort_values('timestamp'), drop_duplicates()            *)
(* ---------------------------------------------------------------------- *)
\* a concat that keeps the last frame only
LastFrame(frames) == IF frames = <<>> THEN <<>> ELSE frames[Len(frames)]

\* pd.concat(all_data, ignore_index=True)
RECURSIVE Concat(_)
Concat(frames) ==
    IF frames = <<>> THEN <<>> ELSE Head(frames) \o Concat(Tail(frames))

IsAscending(rows) ==
    \A i \in 1..(Len(rows) - 1) : rows[i].t <= rows[i + 1].t

Orderings(n) ==
    {p \in [1..n -> 1..n] : \A i, j \in 1..n : i # j => p[i] # p[j]}

\* sort_values('timestamp') with the default, unstable, quicksort: any
\* arrangement of the rows that is ascending in the timestamp
SortValues(rows) ==
    {q \in {[i \in 1..Len(rows) |-> rows[p[i]]] : p \in Orderings(Len(rows))} :
        IsAscending(q)}

\* the columns drop_duplicates() compares: all of them (no subset= given)
DuplicateKey(row) == row

\* drop_duplicates(): keep the first of the rows that agree on the key
RECURSIVE DropFrom(_, _)
DropFrom(rows, seen) ==
    IF rows = <<>> THEN <<>>
    ELSE IF DuplicateKey(Head(rows)) \in seen
         THEN DropFrom(Tail(rows), seen)
         ELSE <<Head(rows)>> \o DropFrom(Tail(rows), seen \cup {DuplicateKey(Head(rows))})

drop_duplicates(rows) == DropFrom(rows, {})

\* final_df of download_ticker_data: the frames it may write
FinalFrames(all_data) ==
    {drop_duplicates(q) : q \in SortValues(Concat(all_data))}

(* ---------------------------------------------------------------------- *)
(* State.                                                                 *)
(* ---------------------------------------------------------------------- *)
VARIABLES
    \* --- the disk ---
    progressFile,       \* download_progress.json
    outFile,            \* outFile[s]: {s}_1min.csv
    \* --- the process (lost when it exits or is killed) ---
    mainPc,             \* "off", "running" (inside the pool), "done"
    tickers,            \* all_tickers of this run
    max_workers,        \* max_workers of download_all_data: the pool's threads
    completed_tickers,  \* self.completed_tickers
    stats,              \* self.stats
    lock,               \* self.lock: the thread holding it, or Unlocked
    queue,              \* the executor's work queue (FIFO)
    pc,                 \* pc[w]: where pool thread w is
    ticker,             \* the ticker of w's task
    chunkIdx,           \* index into date_chunks of w's for loop
    all_data,           \* all_data of w's task
    df,                 \* df of the current iteration
    tmp,                \* the value w has read for a `+= 1` in progress
    snapshot,           \* progress_data['completed_tickers'] of w's save
    \* --- history (not program state) ---
    runs,               \* process starts so far
    loaded,             \* what _load_progress returned in this run
    file0,              \* outFile when this run started
    submitted,          \* tickers submitted to the executor in this run
    requested,          \* requested[s]: chunk indexes requested in this run
    saved,              \* tickers passed to _save_progress in this run
    incs,               \* incs[k]: what the `+=` on stats[k] added in all
    terminal,           \* tickers whose task has returned, in any run
    logAnswers,         \* whether this specification keeps `answers`
    answers,            \* answers[s]: <<chunk index, response>> of each request
                        \* for s in this run, in order
    returned,           \* tickers whose task has returned in this run
    raised,             \* tickers whose task has ended with an exception,
                        \* in any run, and has not returned since
    emptyDone,          \* tickers whose task has returned after an empty 200
    result,             \* what each ticker's task of this run returned
                        \* answer to every chunk, in any run (kept with `answers`)
    \* --- the chunker exercised alone ---
    cStart, cEnd, cChunks, cPc,
    \* --- the combine step exercised alone ---
    rAll, rOut, rPc,
    \* --- _load_progress exercised alone ---
    lFile,              \* the progress file it finds
    lOut,               \* what it returns
    lPc,
    \* --- month_chunks of the FX loader exercised alone ---
    mStart, mEnd, mChunks, mPc,
    \* --- the FX loader (src/data_loading/ohlc_data_loader.py) ---
    fxPc,               \* where the script is
    fxPair,             \* index into PAIRS of the outer loop
    fxChunk,            \* index into the month chunks of the inner loop
    fxTries,            \* calls of fetch_aggs_month the wrapper has made for
                        \* the current chunk
    fxDf,               \* df of the current iteration
    fxFiles,            \* the month files on disk: <<pair, year, month>> -> rows
    fxTotal,            \* total_rows of the current pair
    fxCalls             \* history: <<pair, chunk, outcome>> of every call of
                        \* fetch_aggs_month, in order

diskVars == <<progressFile, outFile>>
procVars == <<mainPc, tickers, max_workers, completed_tickers, stats, lock, queue>>
taskVars == <<pc, ticker, chunkIdx, all_data, df, tmp, snapshot>>
histVars == <<runs, loaded, file0, submitted, requested, saved, incs, terminal,
              logAnswers, answers, returned, raised, emptyDone,
              result, svc>>
chunkVars == <<cStart, cEnd, cChunks, cPc>>
rowVars == <<rAll, rOut, rPc>>
loadVars == <<lFile, lOut, lPc>>
monthVars == <<mStart, mEnd, mChunks, mPc>>
fxVars == <<fxPc, fxPair, fxChunk, fxTries, fxDf, fxFiles, fxTotal, fxCalls>>
\* the variables of what is exercised on its own
sideVars == <<chunkVars, rowVars, loadVars, monthVars, fxVars>>
vars == <<diskVars, procVars, taskVars, histVars, sideVars>>

\* a file that does not exist / one being written / one written and closed
Absent == [state |-> "absent"]
ProgressDoc(done) == [state |-> "whole", completed_tickers |-> done]
Truncated == [state |-> "partial"]
CsvFile(rows, whole) == [state |-> IF whole THEN "whole" ELSE "partial", rows |-> rows]

ZeroStats == [k \in StatKeys |-> 0]

\* date_chunks of download_ticker_data
date_chunks == generate_date_chunks(RangeStart, RangeEnd)

NoProcess ==
    /\ mainPc = "off"
    /\ tickers = {}
    /\ max_workers = 0
    /\ completed_tickers = {}
    /\ stats = ZeroStats
    /\ lock = Unlocked
    /\ queue = <<>>
    /\ pc = [w \in Workers |-> "idle"]
    /\ ticker = [w \in Workers |-> None]
    /\ chunkIdx = [w \in Workers |-> 0]
    /\ all_data = [w \in Workers |-> <<>>]
    /\ df = [w \in Workers |-> <<>>]
    /\ tmp = [w \in Workers |-> NotRead]
    /\ snapshot = [w \in Workers |-> {}]

NoHistory ==
    /\ runs = 0
    /\ loaded = {}
    /\ file0 = [s \in Symbols |-> Absent]
    /\ submitted = {}
    /\ requested = [s \in Symbols |-> {}]
    /\ saved = {}
    /\ incs = ZeroStats
    /\ terminal = {}
    /\ answers = [s \in Symbols |-> <<>>]
    /\ returned = {}
    /\ raised = {}
    /\ emptyDone = {}
    /\ result = [s \in Symbols |-> FALSE]

ChunkerIdle == cStart = 0 /\ cEnd = 0 /\ cChunks = <<>> /\ cPc = "off"
CombineIdle == rAll = <<>> /\ rOut = <<>> /\ rPc = "off"
LoadIdle == lFile = Absent /\ lOut = {} /\ lPc = "off"
MonthsIdle == mStart = 0 /\ mEnd = 0 /\ mChunks = <<>> /\ mPc = "off"
FxIdle ==
    /\ fxPc = "off"
    /\ fxPair = 0
    /\ fxChunk = 0
    /\ fxTries = 0
    /\ fxDf = <<>>
    /\ fxFiles = <<>>
    /\ fxTotal = 0
    /\ fxCalls = <<>>

\* the downloader has never run: nothing on disk, no process
Quiet ==
    /\ progressFile = Absent
    /\ outFile = [s \in Symbols |-> Absent]
    /\ NoProcess
    /\ NoHistory

\* a fresh data directory: no progress file, no output file, nothing running
Fresh ==
    /\ Quiet
    /\ ChunkerIdle
    /\ CombineIdle
    /\ LoadIdle
    /\ MonthsIdle
    /\ FxIdle

Init ==
    /\ Fresh
    /\ svc = DefaultService
    /\ logAnswers = FALSE

(* ---------------------------------------------------------------------- *)
(* __init__ and download_all_data up to the submission of the jobs.       *)
(* ---------------------------------------------------------------------- *)
\* the values json.load returns, and json.dump writes
JNull == [kind |-> "null"]
JNumber(n) == [kind |-> "number", n |-> n]
JString(str) == [kind |-> "string", str |-> str]
JArray(items) == [kind |-> "array", items |-> items]
JObject(members) == [kind |-> "object", members |-> members]

\* a closed progress file holding the JSON document doc, and one holding
\* text that is not JSON
JsonFile(doc) == [state |-> "whole", json |-> doc]
NotJson == [state |-> "whole", text |-> "not json"]

\* list(self.completed_tickers): the members in some order
RECURSIVE ListOf(_)
ListOf(S) ==
    IF S = {} THEN <<>>
    ELSE LET x == CHOOSE y \in S : TRUE IN <<x>> \o ListOf(S \ {x})

\* the document json.dump(progress_data, f) writes ('stats' is never read)
json_dump(done) ==
    JObject([k \in {"completed_tickers", "last_updated"} |->
               IF k = "completed_tickers"
               THEN JArray([i \in 1..Cardinality(done) |-> JString(ListOf(done)[i])])
               ELSE JString("now")])

\* json.load(f) raises JSONDecodeError
JsonLoadRaises(file) == file.state = "partial" \/ "text" \in DOMAIN file

\* json.load(f) of a file it can parse
json_load(file) ==
    IF "json" \in DOMAIN file THEN file.json ELSE json_dump(file.completed_tickers)

\* the characters of a string of the model
Chars(str) ==
    CASE str = "" -> {}
      [] str = "AB" -> {"A", "B"}
      [] OTHER -> {str}

\* hash(v) raises TypeError
Unhashable(v) == v.kind \in {"array", "object"}

\* set(v) raises TypeError: v is not iterable, or an item is unhashable
SetRaises(v) ==
    \/ v.kind \in {"null", "number"}
    \/ v.kind = "array" /\ \E i \in 1..Len(v.items) : Unhashable(v.items[i])

\* set(v): the items of a list, the characters of a string, the keys of a
\* dict
PySet(v) ==
    CASE v.kind = "array" -> {v.items[i] : i \in 1..Len(v.items)}
      [] v.kind = "string" -> {JString(c) : c \in Chars(v.str)}
      [] v.kind = "object" -> {JString(k) : k \in DOMAIN v.members}

\* progress.get('completed_tickers', [])
GetCompleted(progress) ==
    IF "completed_tickers" \in DOMAIN progress.members
    THEN progress.members["completed_tickers"]
    ELSE JArray(<<>>)

\* _load_progress, lines 79-88: set() unless the file exists and nothing
\* in the try block raises
load_progress(file) ==
    IF file.state = "absent" THEN {}
    ELSE IF JsonLoadRaises(file) THEN {}
    ELSE IF json_load(file).kind # "object" THEN {}
    ELSE IF SetRaises(GetCompleted(json_load(file))) THEN {}
    ELSE PySet(GetCompleted(json_load(file)))

\* _load_progress on a file of this program: the tickers it returns
LoadProgress(file) == {v.str : v \in load_progress(file)}

\* remaining_tickers = total_tickers - completed_count
RemainingTickers(all, done) == Cardinality(all) - Cardinality(done)

\* work_queue without its filter on completed_tickers
WorkQueueUnfiltered(all, done) ==
    SelectSeq(TickerOrder, LAMBDA t : t \in all)

\* work_queue = [ticker for ticker in tickers if ticker not in completed]
WorkQueue(all, done) ==
    SelectSeq(TickerOrder, LAMBDA t : t \in all /\ t \notin done)

SeqRange(q) == {q[i] : i \in 1..Len(q)}

\* A process start: __init__ loads the progress file; download_all_data
\* takes the ticker list `all` (the list is edited between runs) and a pool
\* of n threads, returns at once when remaining_tickers is 0 and otherwise
\* submits the work queue.
StartRun(all, n) ==
    /\ mainPc \in {"off", "done"}
    /\ max_workers' = n
    /\ runs < MaxRuns
    /\ runs' = runs + 1
    /\ LET done == LoadProgress(progressFile)
           work == IF RemainingTickers(all, done) = 0
                   THEN <<>> ELSE WorkQueue(all, done)
       IN  /\ completed_tickers' = done
           /\ loaded' = done
           /\ tickers' = all
           /\ queue' = work
           /\ submitted' = SeqRange(work)
           /\ mainPc' = IF RemainingTickers(all, done) = 0 THEN "done" ELSE "running"
    /\ stats' = ZeroStats
    /\ incs' = ZeroStats
    /\ lock' = Unlocked
    /\ file0' = outFile
    /\ requested' = [s \in Symbols |-> {}]
    /\ saved' = {}
    /\ answers' = [s \in Symbols |-> <<>>]
    /\ returned' = {}
    /\ result' = [s \in Symbols |-> FALSE]
    /\ UNCHANGED <<diskVars, taskVars, terminal, emptyDone, raised, svc, logAnswers, sideVars>>

\* the executor has drained: every future is done, the summary is logged
Finish ==
    /\ mainPc = "running"
    /\ queue = <<>>
    /\ \A w \in Workers : pc[w] = "idle"
    /\ mainPc' = "done"
    /\ UNCHANGED <<diskVars, tickers, max_workers, completed_tickers, stats, lock, queue,
                   taskVars, histVars, sideVars>>

\* The process is killed: its memory is gone, the disk is as it was.
Kill ==
    /\ mainPc = "running"
    /\ mainPc' = "off"
    /\ tickers' = {}
    /\ max_workers' = 0
    /\ completed_tickers' = {}
    /\ stats' = ZeroStats
    /\ lock' = Unlocked
    /\ queue' = <<>>
    /\ pc' = [w \in Workers |-> "idle"]
    /\ ticker' = [w \in Workers |-> None]
    /\ chunkIdx' = [w \in Workers |-> 0]
    /\ all_data' = [w \in Workers |-> <<>>]
    /\ df' = [w \in Workers |-> <<>>]
    /\ tmp' = [w \in Workers |-> NotRead]
    /\ snapshot' = [w \in Workers |-> {}]
    /\ UNCHANGED <<diskVars, histVars, sideVars>>

(* ---------------------------------------------------------------------- *)
(* A pool thread: download_ticker_data.                                   *)
(* ---------------------------------------------------------------------- *)
\* every chunk has been requested once in this run and has been answered
\* 200 with no results
AllEmpty(s) ==
    /\ logAnswers
    /\ Len(answers[s]) = Len(date_chunks)
    /\ \A i \in 1..Len(answers[s]) :
          /\ answers[s][i] = <<i, "200">>
          /\ ServiceRows(s, date_chunks[i]) = <<>>

\* what download_ticker_data returns at each of its return statements
ReturnValue == TRUE

\* w's task has returned
Return(w) ==
    /\ result' = [result EXCEPT ![ticker[w]] = ReturnValue]
    /\ pc' = [pc EXCEPT ![w] = "idle"]
    /\ terminal' = terminal \cup {ticker[w]}
    /\ returned' = returned \cup {ticker[w]}
    /\ raised' = raised \ {ticker[w]}
    /\ emptyDone' = IF AllEmpty(ticker[w]) THEN emptyDone \cup {ticker[w]}
                    ELSE emptyDone
    /\ ticker' = [ticker EXCEPT ![w] = None]
    /\ chunkIdx' = [chunkIdx EXCEPT ![w] = 0]
    /\ all_data' = [all_data EXCEPT ![w] = <<>>]
    /\ df' = [df EXCEPT ![w] = <<>>]
    /\ tmp' = [tmp EXCEPT ![w] = NotRead]
    /\ snapshot' = [snapshot EXCEPT ![w] = {}]

\* a thread that takes whatever is queued, whatever it is doing
AnyThreadTakes(w) == TRUE

\* w is one of the pool's max_workers threads and is not running a task
CanTake(w) == w <= max_workers /\ pc[w] = "idle"

\* an idle pool thread takes the next job of the queue
TakeTask(w) ==
    /\ mainPc = "running"
    /\ CanTake(w)
    /\ queue # <<>>
    /\ ticker' = [ticker EXCEPT ![w] = Head(queue)]
    /\ queue' = Tail(queue)
    /\ pc' = [pc EXCEPT ![w] = "begin"]
    /\ UNCHANGED <<diskVars, mainPc, tickers, max_workers, completed_tickers, stats, lock,
                   chunkIdx, all_data, df, tmp, snapshot, histVars, sideVars>>

\* lines 378-394: the two skips, then the chunk list
\* a path that never exists
NeverExists(file) == FALSE

\* output_file.exists()
FileExists(file) == file.state # "absent"

\* lines 378-394: the two shortcuts, or the start of the for loop
Begin(w) ==
    /\ pc[w] = "begin"
    /\ IF ticker[w] \in completed_tickers
       THEN /\ Return(w)
            /\ UNCHANGED <<diskVars, procVars, runs, loaded, file0, submitted,
                           requested, saved, incs, answers, svc, logAnswers>>
       ELSE /\ pc' = [pc EXCEPT ![w] =
                        IF FileExists(outFile[ticker[w]]) THEN "save" ELSE "loop"]
            /\ chunkIdx' = [chunkIdx EXCEPT ![w] =
                              IF FileExists(outFile[ticker[w]]) THEN 0 ELSE 1]
            /\ UNCHANGED <<diskVars, procVars, ticker, all_data, df, tmp, snapshot, histVars>>
    /\ UNCHANGED <<sideVars>>

\* the chunk the for loop goes to after an iteration ends, by `continue`
\* or by falling off the body: the next one
NextChunk(i) == i + 1

\* a loop that stays on its chunk
SameChunk(i) == i

\* the chunk the for loop goes to after the `continue` of the 429 branch
AfterRateLimit(i) == NextChunk(i)

\* the for loop's head, and the read of `self.stats['total_api_calls'] += 1`
LoopHead(w) ==
    /\ pc[w] = "loop"
    /\ IF chunkIdx[w] > Len(date_chunks)
       THEN /\ pc' = [pc EXCEPT ![w] = "combine"]
            /\ UNCHANGED tmp
       ELSE /\ pc' = [pc EXCEPT ![w] = "call"]
            /\ tmp' = [tmp EXCEPT ![w] = stats["total_api_calls"]]
    /\ UNCHANGED <<diskVars, procVars, ticker, chunkIdx, all_data, df, snapshot,
                   histVars, sideVars>>

\* the rows of one response: at most `limit` of them; the code reads
\* data['results'] of this response and nothing else of it
FirstPage(rows) == SubSeq(rows, 1, Min(Len(rows), PageLimit))

\* a list that grows at its head
PrependFrame(data, frame) == <<frame>> \o data

\* all_data.append(df)
AppendFrame(data, frame) == Append(data, frame)

\* what requests.get may do
Responses == {"200", "429", "other status", "exception"}

\* the write of the `+= 1`, requests.get, and the branch on the response
Call(w, resp) ==
    /\ pc[w] = "call"
    /\ stats' = [stats EXCEPT !["total_api_calls"] = tmp[w] + 1]
    /\ incs' = [incs EXCEPT !["total_api_calls"] = @ + 1]
    /\ tmp' = [tmp EXCEPT ![w] = NotRead]
    /\ requested' = [requested EXCEPT ![ticker[w]] = @ \cup {chunkIdx[w]}]
    /\ answers' = IF logAnswers
                  THEN [answers EXCEPT ![ticker[w]] = Append(@, <<chunkIdx[w], resp>>)]
                  ELSE answers
    /\ LET rows == FirstPage(ServiceRows(ticker[w], date_chunks[chunkIdx[w]]))
       IN  CASE resp = "200" ->
                   /\ df' = [df EXCEPT ![w] = rows]
                   /\ all_data' = [all_data EXCEPT ![w] =
                                     IF rows # <<>> THEN AppendFrame(@, rows) ELSE @]
                   /\ pc' = [pc EXCEPT ![w] = "successful_calls"]
                   /\ UNCHANGED chunkIdx
              [] resp = "429" ->
                   /\ chunkIdx' = [chunkIdx EXCEPT ![w] = AfterRateLimit(@)]
                   /\ pc' = [pc EXCEPT ![w] = "loop"]
                   /\ UNCHANGED <<df, all_data>>
              [] OTHER ->
                   /\ pc' = [pc EXCEPT ![w] = "failed_calls"]
                   /\ UNCHANGED <<df, all_data, chunkIdx>>
    /\ UNCHANGED <<diskVars, mainPc, tickers, max_workers, completed_tickers, lock, queue,
                   ticker, snapshot, runs, loaded, file0, submitted, saved, terminal, emptyDone, result,
                   returned, raised, svc, logAnswers, sideVars>>

\* the read of a `self.stats[k] += n` (k is where w is)
StatsRead(w) ==
    /\ pc[w] \in {"successful_calls", "failed_calls", "total_data_points"}
    /\ tmp[w] = NotRead
    /\ tmp' = [tmp EXCEPT ![w] = stats[pc[w]]]
    /\ UNCHANGED <<diskVars, procVars, pc, ticker, chunkIdx, all_data, df, snapshot,
                   histVars, sideVars>>

\* a counter that grows by the rows of the frame, whatever the counter
CountRows(k, frame) == Len(frame)

\* n of `self.stats[k] += n`: len(df) for total_data_points, else 1
Increment(k, frame) == IF k = "total_data_points" THEN Len(frame) ELSE 1

\* the write of a `self.stats[k] += n`, and the statement after it
StatsWrite(w) ==
    /\ pc[w] \in {"successful_calls", "failed_calls", "total_data_points"}
    /\ tmp[w] # NotRead
    /\ stats' = [stats EXCEPT ![pc[w]] = tmp[w] + Increment(pc[w], df[w])]
    /\ incs' = [incs EXCEPT ![pc[w]] = @ + Increment(pc[w], df[w])]
    /\ tmp' = [tmp EXCEPT ![w] = NotRead]
    /\ IF pc[w] = "successful_calls" /\ df[w] # <<>>
       THEN /\ pc' = [pc EXCEPT ![w] = "total_data_points"]
            /\ UNCHANGED <<chunkIdx, df>>
       ELSE /\ pc' = [pc EXCEPT ![w] = "loop"]
            /\ chunkIdx' = [chunkIdx EXCEPT ![w] = NextChunk(@)]
            /\ df' = [df EXCEPT ![w] = <<>>]
    /\ UNCHANGED <<diskVars, mainPc, tickers, max_workers, completed_tickers, lock, queue,
                   ticker, all_data, snapshot, runs, loaded, file0, submitted,
                   requested, saved, terminal, emptyDone, result, answers, returned, raised, svc,
                   logAnswers, sideVars>>

\* lines 454-460 and 465-468: final_df, and to_csv opening the output file
Combine(w) ==
    /\ pc[w] = "combine"
    /\ IF all_data[w] # <<>>
       THEN \E final \in FinalFrames(all_data[w]) :
               /\ df' = [df EXCEPT ![w] = final]
               /\ outFile' = [outFile EXCEPT ![ticker[w]] = CsvFile(<<>>, FALSE)]
               /\ pc' = [pc EXCEPT ![w] = "to_csv"]
       ELSE /\ pc' = [pc EXCEPT ![w] = "save"]
            /\ UNCHANGED <<df, outFile>>
    /\ UNCHANGED <<progressFile, procVars, ticker, chunkIdx, all_data, tmp, snapshot,
                   histVars, sideVars>>

\* to_csv has written every row and closed the file
ToCsv(w) ==
    /\ pc[w] = "to_csv"
    /\ outFile' = [outFile EXCEPT ![ticker[w]] = CsvFile(df[w], TRUE)]
    /\ pc' = [pc EXCEPT ![w] = "save"]
    /\ UNCHANGED <<progressFile, procVars, ticker, chunkIdx, all_data, df, tmp, snapshot,
                   histVars, sideVars>>

(* ---------------------------------------------------------------------- *)
(* _save_progress.  The document's last_updated and stats fields are      *)
(* written and never read back; the model keeps completed_tickers.        *)
(* ---------------------------------------------------------------------- *)
\* _save_progress without its `with self.lock:`
LockIgnored == TRUE

\* `with self.lock:` can be entered
LockFree == lock = Unlocked

\* lines 92-103: the lock is taken, the ticker added, progress_data built
SaveAcquire(w) ==
    /\ pc[w] = "save"
    /\ LockFree
    /\ lock' = w
    /\ completed_tickers' = completed_tickers \cup {ticker[w]}
    /\ snapshot' = [snapshot EXCEPT ![w] = completed_tickers']
    /\ saved' = saved \cup {ticker[w]}
    /\ pc' = [pc EXCEPT ![w] = "open"]
    /\ UNCHANGED <<diskVars, mainPc, tickers, max_workers, stats, queue, ticker, chunkIdx, all_data,
                   df, tmp, runs, loaded, file0, submitted, requested, incs, terminal, emptyDone, result,
                   answers, returned, raised, svc, logAnswers, sideVars>>

\* what open(self.progress_file, 'w') leaves on disk: an empty file
OpenForWrite(file) == Truncated

\* line 104
SaveOpen(w) ==
    /\ pc[w] = "open"
    /\ progressFile' = OpenForWrite(progressFile)
    /\ pc' = [pc EXCEPT ![w] = "dump"]
    /\ UNCHANGED <<outFile, procVars, ticker, chunkIdx, all_data, df, tmp, snapshot,
                   histVars, sideVars>>

\* line 105 and the two block exits: the document is on disk, the lock is
\* released, download_ticker_data returns True
SaveDump(w) ==
    /\ pc[w] = "dump"
    /\ progressFile' = ProgressDoc(snapshot[w])
    /\ lock' = Unlocked
    /\ Return(w)
    /\ UNCHANGED <<outFile, mainPc, tickers, max_workers, completed_tickers, stats, queue,
                   runs, loaded, file0, submitted, requested, saved, incs,
                   answers, svc, logAnswers, sideVars>>

(* ---------------------------------------------------------------------- *)
(* A task that ends with an exception: the file operations after the      *)
(* loop are outside any try, so an OSError of theirs leaves                *)
(* download_ticker_data; the future keeps it and download_all_data logs    *)
(* "Job failed" (lines 528-529).                                           *)
(* ---------------------------------------------------------------------- *)
Raise(w) ==
    /\ pc' = [pc EXCEPT ![w] = "idle"]
    /\ raised' = raised \cup {ticker[w]}
    /\ ticker' = [ticker EXCEPT ![w] = None]
    /\ chunkIdx' = [chunkIdx EXCEPT ![w] = 0]
    /\ all_data' = [all_data EXCEPT ![w] = <<>>]
    /\ df' = [df EXCEPT ![w] = <<>>]
    /\ tmp' = [tmp EXCEPT ![w] = NotRead]
    /\ snapshot' = [snapshot EXCEPT ![w] = {}]

\* to_csv raises: before it has created the file (the path is not
\* writable), or part-way through the rows (the disk is full)
CsvRaise(w) ==
    /\ \/ pc[w] = "combine" /\ all_data[w] # <<>>
       \/ pc[w] = "to_csv"
    /\ Raise(w)
    /\ UNCHANGED <<diskVars, procVars, runs, loaded, file0, submitted, requested,
                   saved, incs, terminal, emptyDone, result, logAnswers, answers, returned, svc,
                   sideVars>>

\* an exception leaving `with self.lock:` without the release of the lock
LockLeaked(w) == w

\* the lock after an exception has left `with self.lock:`
LockOnRaise(w) == Unlocked

\* open(self.progress_file, 'w') raises, or json.dump raises part-way
SaveRaise(w) ==
    /\ pc[w] \in {"open", "dump"}
    /\ lock' = LockOnRaise(w)
    /\ Raise(w)
    /\ UNCHANGED <<diskVars, mainPc, tickers, max_workers, completed_tickers, stats, queue,
                   runs, loaded, file0, submitted, requested, saved, incs, terminal, emptyDone, result,
                   logAnswers, answers, returned, svc, sideVars>>

Fault(w) ==
    \/ CsvRaise(w)
    \/ SaveRaise(w)

\* the steps of a pool thread other than the request
WorkerSteps(w) ==
    \/ TakeTask(w)
    \/ Begin(w)
    \/ LoopHead(w)
    \/ StatsRead(w)
    \/ StatsWrite(w)
    \/ Combine(w)
    \/ ToCsv(w)
    \/ SaveAcquire(w)
    \/ SaveOpen(w)
    \/ SaveDump(w)

Worker(w) ==
    \/ WorkerSteps(w)
    \/ \E resp \in Responses : Call(w, resp)

Next ==
    \/ \E all \in SUBSET Symbols \ {{}}, n \in Workers : StartRun(all, n)
    \/ Finish
    \/ Kill
    \/ \E w \in Workers : Worker(w)

Spec == Init /\ [][Next]_vars

(* ---------------------------------------------------------------------- *)
(* The same runs with the history of the answers kept.                    *)
(* ---------------------------------------------------------------------- *)
ObsInit ==
    /\ Fresh
    /\ svc = DefaultService
    /\ logAnswers = TRUE

SpecObs == ObsInit /\ [][Next]_vars

(* ---------------------------------------------------------------------- *)
(* Runs that are not killed, with the failures of the file operations.    *)
(* ---------------------------------------------------------------------- *)
NextFaults ==
    \/ \E all \in SUBSET Symbols \ {{}}, n \in Workers : StartRun(all, n)
    \/ Finish
    \/ \E w \in Workers : Worker(w)
    \/ \E w \in Workers : Fault(w)

SpecFaults == Init /\ [][NextFaults]_vars

\* One run of download_all_data from a fresh directory, under the
\* scheduling the code relies on: a pool thread that can take a step
\* eventually takes one (every request returns or times out, timeout=30),
\* and download_all_data logs its summary once the executor has drained.
\* Nothing forces a file operation to fail.
NextLive ==
    \/ \E all \in SUBSET Symbols \ {{}}, n \in Workers : runs = 0 /\ StartRun(all, n)
    \/ Finish
    \/ \E w \in Workers : Worker(w)
    \/ \E w \in Workers : Fault(w)

SpecLive ==
    /\ Init
    /\ [][NextLive]_vars
    /\ \A w \in Workers : WF_vars(Worker(w))
    /\ WF_vars(Finish)

(* ---------------------------------------------------------------------- *)
(* Runs that are neither killed nor hit by a file failure, against each   *)
(* service of ServiceConfigs, with the history of the answers kept.       *)
(* ---------------------------------------------------------------------- *)
\* "A" with bars in both chunks, or in the first only; "B" with none
ServiceConfigs ==
    {[s \in Symbols |-> IF s = "A" THEN bars ELSE <<>>] :
        bars \in {<<Bar(1, 1), Bar(2, 1), Bar(50, 1)>>,
                  <<Bar(1, 1), Bar(2, 1)>>}}

EnvInit ==
    /\ Fresh
    /\ svc \in ServiceConfigs
    /\ logAnswers = TRUE

NextEnv ==
    \/ \E all \in SUBSET Symbols \ {{}}, n \in Workers : StartRun(all, n)
    \/ Finish
    \/ \E w \in Workers : Worker(w)

SpecEnv == EnvInit /\ [][NextEnv]_vars

(* ---------------------------------------------------------------------- *)
(* One run with a pool of one thread: the tasks run one after the other,  *)
(* each request answered in any of the ways the code tells apart.         *)
(* ---------------------------------------------------------------------- *)
\* "A" with more bars in the first chunk than one response carries, and a
\* bar in the second chunk; "B" with none
TaskService ==
    [s \in Symbols |-> IF s = "A"
                       THEN <<Bar(1, 1), Bar(2, 1), Bar(3, 1), Bar(50, 1)>>
                       ELSE <<>>]

\* what requests.get may do: a status (200, 429, a 4xx, a 5xx), a 200
\* whose body response.json() cannot parse, or an exception of requests
\* (connection reset, timeout)
TaskResponses == {"200", "429", "404", "500", "malformed", "timeout"}

TaskInit ==
    /\ Fresh
    /\ svc = TaskService
    /\ logAnswers = TRUE

NextTask ==
    \/ \E all \in SUBSET Symbols \ {{}} : runs = 0 /\ StartRun(all, 1)
    \/ Finish
    \/ \E w \in Workers : WorkerSteps(w)
    \/ \E w \in Workers, resp \in TaskResponses : Call(w, resp)

SpecTask == TaskInit /\ [][NextTask]_vars

(* ---------------------------------------------------------------------- *)
(* The chunker alone: every range of the calendar with start <= end.      *)
(* ---------------------------------------------------------------------- *)
ChunkInit ==
    /\ Quiet
    /\ svc = DefaultService
    /\ logAnswers = FALSE
    /\ CombineIdle
    /\ LoadIdle
    /\ MonthsIdle
    /\ FxIdle
    /\ cStart \in 0..MaxDay
    /\ cEnd \in cStart..MaxDay
    /\ cChunks = <<>>
    /\ cPc = "ready"

ChunkCall ==
    /\ cPc = "ready"
    /\ cChunks' = generate_date_chunks(cStart, cEnd)
    /\ cPc' = "done"
    /\ UNCHANGED <<diskVars, procVars, taskVars, histVars, cStart, cEnd, rowVars,
                   loadVars, monthVars, fxVars>>

SpecChunks == ChunkInit /\ [][ChunkCall]_vars

(* ---------------------------------------------------------------------- *)
(* _load_progress alone: on no file, on text that is not JSON, on a       *)
(* truncated file and on every JSON document of Documents.                *)
(* ---------------------------------------------------------------------- *)
\* longest JSON array in a document
MaxItems == 2

JsonAtoms == {JNull, JNumber(1), JString("A"), JString("B"), JString("AB"), JString("")}

JsonItems == {JString("A"), JString("B"), JNumber(1), JNull, JArray(<<JString("A")>>)}

JsonValues ==
    JsonAtoms
      \cup {JArray(items) : items \in UNION {[1..n -> JsonItems] : n \in 0..MaxItems}}
      \cup {JObject([k \in {"A"} |-> JNumber(1)])}

Documents ==
    JsonValues
      \cup {JObject([k \in {"last_updated"} |-> JString("now")])}
      \cup {JObject([k \in {"completed_tickers"} |-> v]) : v \in JsonValues}
      \cup {JObject([k \in {"completed_tickers", "last_updated"} |->
                       IF k = "completed_tickers" THEN v ELSE JString("now")]) :
               v \in JsonValues}

LoadInputs == {Absent, Truncated, NotJson} \cup {JsonFile(doc) : doc \in Documents}

LoadInit ==
    /\ Quiet
    /\ svc = DefaultService
    /\ logAnswers = FALSE
    /\ ChunkerIdle
    /\ CombineIdle
    /\ FxIdle
    /\ MonthsIdle
    /\ lFile \in LoadInputs
    /\ lOut = {}
    /\ lPc = "ready"

LoadCall ==
    /\ lPc = "ready"
    /\ lOut' = load_progress(lFile)
    /\ lPc' = "done"
    /\ UNCHANGED <<diskVars, procVars, taskVars, histVars, chunkVars, rowVars,
                   lFile, monthVars, fxVars>>

SpecLoad == LoadInit /\ [][LoadCall]_vars

(* ---------------------------------------------------------------------- *)
(* The FX loader, src/data_loading/ohlc_data_loader.py: a script that     *)
(* loops over PAIRS and, for each pair, over the calendar months of the   *)
(* range, fetching a month through the backoff wrapper and writing it to  *)
(* a parquet file.                                                        *)
(* ---------------------------------------------------------------------- *)
\* the range [start_date, end_date] of the script: 2024-01-21 to 2024-02-15
FxStart == 20
FxEnd == 45
\* the calls of fetch_aggs_month that fit in max_time=300 seconds at most
FxMaxTries == 2

PAIRS == <<"EURUSD", "USDJPY">>

\* a max that always takes the month's first day
NoClip(a, b) == a

\* datetime(s.year, s.month, 1)
MonthStart(day) == strptime(<<strftime(day)[1], strftime(day)[2], 1>>)

\* cur + relativedelta(months=1), cur being the first day of a month
NextMonth(cur) == cur + DaysInMonth(strftime(cur)[1], strftime(cur)[2])

Max(a, b) == IF a > b THEN a ELSE b

RECURSIVE MonthLoop(_, _, _, _)
MonthLoop(cur, s, e, chunks) ==
    IF cur <= e
    THEN MonthLoop(NextMonth(cur), s, e,
                   Append(chunks, <<Max(cur, s), Min(NextMonth(cur) - 1, e)>>))
    ELSE chunks

month_chunks(s, e) == MonthLoop(MonthStart(s), s, e, <<>>)

fx_chunks == month_chunks(FxStart, FxEnd)

\* month_chunks alone: every range start <= end of the first days of
\* EpochYear and of the days around the end of that year
MonthDays == (0..MaxDay) \cup (350..400)

MonthInit ==
    /\ Quiet
    /\ svc = DefaultService
    /\ logAnswers = FALSE
    /\ ChunkerIdle
    /\ CombineIdle
    /\ LoadIdle
    /\ FxIdle
    /\ mStart \in MonthDays
    /\ mEnd \in {d \in MonthDays : mStart <= d}
    /\ mChunks = <<>>
    /\ mPc = "ready"

MonthCall ==
    /\ mPc = "ready"
    /\ mChunks' = month_chunks(mStart, mEnd)
    /\ mPc' = "done"
    /\ UNCHANGED <<diskVars, procVars, taskVars, histVars, chunkVars, rowVars,
                   loadVars, mStart, mEnd, fxVars>>

SpecMonths == MonthInit /\ [][MonthCall]_vars

\* the bars the service holds for a pair: "EURUSD" trades in both months,
\* "USDJPY" in the first only
FxService ==
    [p \in {PAIRS[i] : i \in 1..Len(PAIRS)} |->
        IF p = "EURUSD" THEN <<Bar(25, 1), Bar(40, 1)>> ELSE <<Bar(25, 1)>>]

\* the rows client.list_aggs yields for from_=chunk[1], to=chunk[2]
FxRows(pair, chunk) ==
    SelectSeq(FxService[pair], LAMBDA b : chunk[1] <= b.t /\ b.t <= chunk[2])

\* what a call of fetch_aggs_month may do: return its frame, or raise a
\* requests.HTTPError (which carries the response's status, 4xx or 5xx), a
\* requests.ConnectionError, or any other exception (a response that does
\* not parse, a client error class of its own)
FxOutcomes == {"rows", "HTTPError 4xx", "HTTPError 5xx", "ConnectionError",
               "other exception"}

\* the exceptions backoff.on_exception retries: the two classes of the
\* decorator, which has no giveup predicate on the status
FxRetried == {"HTTPError 4xx", "HTTPError 5xx", "ConnectionError"}

\* a file named by the pair and the year only
YearFile(pair, chunk) == <<pair, strftime(chunk[1])[1], 1>>

\* y, m = s.split("-")[0], s.split("-")[1]; the file {y:04d}-{m:02d}.parquet
\* of the pair
MonthFile(pair, chunk) == <<pair, strftime(chunk[1])[1], strftime(chunk[1])[2]>>

FxInit ==
    /\ Quiet
    /\ svc = DefaultService
    /\ logAnswers = FALSE
    /\ ChunkerIdle
    /\ CombineIdle
    /\ LoadIdle
    /\ MonthsIdle
    /\ FxIdle

downloaderVars == <<diskVars, procVars, taskVars, histVars, chunkVars, rowVars, loadVars,
                    monthVars>>

\* lines 96-105: the script starts its loops
FxBegin ==
    /\ fxPc = "off"
    /\ fxPc' = "fetch"
    /\ fxPair' = 1
    /\ fxChunk' = 1
    /\ UNCHANGED <<downloaderVars, fxTries, fxDf, fxFiles, fxTotal, fxCalls>>

\* line 110, one call of fetch_aggs_month by the wrapper: an exception
\* that is not retried leaves the wrapper and, nothing catching it, the
\* script
FxFetch(outcome) ==
    /\ fxPc = "fetch"
    /\ fxTries' = fxTries + 1
    /\ fxCalls' = Append(fxCalls, <<fxPair, fxChunk, outcome>>)
    /\ IF outcome = "rows"
       THEN /\ fxDf' = FxRows(PAIRS[fxPair], fx_chunks[fxChunk])
            /\ fxPc' = "save"
       ELSE /\ fxPc' = IF outcome \in FxRetried THEN "backoff" ELSE "crashed"
            /\ UNCHANGED fxDf
    /\ UNCHANGED <<downloaderVars, fxPair, fxChunk, fxFiles, fxTotal>>

\* the wrapper waits and calls again
FxRetry ==
    /\ fxPc = "backoff"
    /\ fxTries < FxMaxTries
    /\ fxPc' = "fetch"
    /\ UNCHANGED <<downloaderVars, fxPair, fxChunk, fxTries, fxDf, fxFiles, fxTotal, fxCalls>>

\* max_time has elapsed: the wrapper re-raises, and the exception leaves
\* the script
FxGiveUp ==
    /\ fxPc = "backoff"
    /\ fxPc' = "crashed"
    /\ UNCHANGED <<downloaderVars, fxPair, fxChunk, fxTries, fxDf, fxFiles, fxTotal, fxCalls>>

\* lines 111-116: save_month_parquet (nothing for an empty frame), the
\* count, and the step of the two loops
FxSave ==
    /\ fxPc = "save"
    /\ fxFiles' = IF fxDf = <<>> THEN fxFiles
                  ELSE (MonthFile(PAIRS[fxPair], fx_chunks[fxChunk]) :> fxDf) @@ fxFiles
    /\ fxTries' = 0
    /\ fxDf' = <<>>
    /\ IF fxChunk < Len(fx_chunks)
       THEN /\ fxChunk' = fxChunk + 1
            /\ fxTotal' = fxTotal + Len(fxDf)
            /\ fxPc' = "fetch"
            /\ UNCHANGED fxPair
       ELSE /\ fxChunk' = 1
            /\ fxTotal' = 0
            /\ fxPair' = IF fxPair < Len(PAIRS) THEN fxPair + 1 ELSE fxPair
            /\ fxPc' = IF fxPair < Len(PAIRS) THEN "fetch" ELSE "done"
    /\ UNCHANGED <<downloaderVars, fxCalls>>

\* mkdir or to_parquet raises (e.g. OSError), and the exception leaves the
\* script
FxSaveRaise ==
    /\ fxPc = "save"
    /\ fxDf # <<>>
    /\ fxPc' = "crashed"
    /\ UNCHANGED <<downloaderVars, fxPair, fxChunk, fxTries, fxDf, fxFiles, fxTotal, fxCalls>>

NextFx ==
    \/ FxBegin
    \/ \E outcome \in FxOutcomes : FxFetch(outcome)
    \/ FxRetry
    \/ FxGiveUp
    \/ FxSave
    \/ FxSaveRaise

SpecFx == FxInit /\ [][NextFx]_vars

(* ---------------------------------------------------------------------- *)
(* The combine step alone: every all_data of up to MaxRows bars in one or *)
(* two frames, each frame as a response holds it (sort=asc).              *)
(* ---------------------------------------------------------------------- *)
BarSet == {Bar(t, c) : t \in 1..2, c \in 1..2}

Frames ==
    {f \in UNION {[1..n -> BarSet] : n \in 1..MaxRows} : IsAscending(f)}

RowsInit ==
    /\ Quiet
    /\ svc = DefaultService
    /\ logAnswers = FALSE
    /\ ChunkerIdle
    /\ LoadIdle
    /\ MonthsIdle
    /\ FxIdle
    /\ rAll \in {<<f>> : f \in Frames}
                \cup {<<f, g>> : f, g \in Frames} 
    /\ Len(Concat(rAll)) <= MaxRows
    /\ rOut = <<>>
    /\ rPc = "ready"

RowsCombine ==
    /\ rPc = "ready"
    /\ \E final \in FinalFrames(rAll) : rOut' = final
    /\ rPc' = "done"
    /\ UNCHANGED <<diskVars, procVars, taskVars, histVars, chunkVars, rAll,
                   loadVars, monthVars, fxVars>>

SpecRows == RowsInit /\ [][RowsCombine]_vars

(* ====================================================================== *)
(* The claims.                                                            *)
(* ====================================================================== *)
AllChunks == 1..Len(date_chunks)
InSave(w) == pc[w] \in {"open", "dump"}

\* C1: for every start <= end, the chunks generate_date_chunks returns are
\* contiguous (each starts the day after the previous one ends), do not
\* overlap, and cover exactly the days of [start, end].
C1_ChunksCoverRange ==
    cPc = "done" =>
        /\ \A i \in 1..Len(cChunks) : cChunks[i][1] <= cChunks[i][2]
        /\ \A i \in 1..(Len(cChunks) - 1) : cChunks[i + 1][1] = cChunks[i][2] + 1
        /\ DaysOf(cChunks) = cStart..cEnd

\* C2: in a run whose loaded progress record contains S, S is not
\* submitted to the pool, no pool thread works on S, no HTTP request is
\* issued for S, and S's output file stays as it was when the run started.
C2_CompletedSymbolUntouched ==
    mainPc # "off" =>
        \A s \in loaded :
            /\ s \notin submitted
            /\ \A w \in Workers : ticker[w] # s
            /\ requested[s] = {}
            /\ outFile[s] = file0[s]

\* C2 witness: a finished run that loaded a completed ticker of its list,
\* whose output file exists, and fetched another ticker
C2_Witness ==
    /\ mainPc = "done"
    /\ \E s \in loaded \cap tickers : outFile[s].state = "whole"
    /\ \E s \in tickers \ loaded : requested[s] = AllChunks

\* C3: a ticker in the completed set has an output file that holds every
\* bar the service has in every chunk of the range, unless the service has
\* no bar for it in any chunk.
C3_CompletedHasAllRows ==
    \A s \in completed_tickers :
        (\E k \in AllChunks : ServiceRows(s, date_chunks[k]) # <<>>) =>
            /\ outFile[s].state = "whole"
            /\ \A k \in AllChunks :
                 SeqRange(ServiceRows(s, date_chunks[k])) \subseteq SeqRange(outFile[s].rows)

\* C4: a ticker is treated as completed only if its task reached a
\* terminal state: a ticker that was in flight when the process was
\* interrupted is completed in a later run only after a request for every
\* one of its chunks in that run.
C4_InFlightFetchedAgain ==
    \A s \in completed_tickers :
        s \in terminal \/ requested[s] = AllChunks

\* C5: at every instant the progress file holds a complete record (or does
\* not exist yet), never a truncated document.
C5_ProgressFileNeverPartial ==
    progressFile.state \in {"absent", "whole"}

\* C6: after a restart every ticker whose task had terminated is still in
\* the completed set the process works with.
C6_TerminatedSurviveKill ==
    mainPc # "off" => terminal \subseteq completed_tickers

\* C7: no increment of a counter of stats is lost: when the run is over
\* each counter equals what the increments performed on it add up to.
C7_NoIncrementLost ==
    mainPc = "done" => \A k \in StatKeys : stats[k] = incs[k]

\* C8: calls of _save_progress are serialized: at most one thread is
\* between the add and the end of the write, the in-memory set keeps every
\* ticker loaded or passed to a call, and when no call is in progress after
\* at least one call the file holds exactly the in-memory set.
C8_SavesSerialized ==
    /\ Cardinality({w \in Workers : InSave(w)}) <= 1
    /\ mainPc # "off" => (loaded \cup saved) \subseteq completed_tickers
    /\ (mainPc # "off" /\ saved # {} /\ \A w \in Workers : pc[w] \notin {"save", "open", "dump"})
          => progressFile = ProgressDoc(completed_tickers)

\* C8 witness: in a run that loaded nothing, one call is writing the file
\* while a second call, for another ticker, waits for the lock
C8_Witness ==
    \E w1, w2 \in Workers :
        /\ pc[w1] = "dump"
        /\ pc[w2] = "save"
        /\ ticker[w1] # ticker[w2]

\* C9: download_all_data submits a task for every ticker of its list that
\* is not in the loaded completed set.
C9_EveryRemainingSubmitted ==
    mainPc # "off" => (tickers \ loaded) \subseteq submitted

\* C10: the timestamps of the frame written to a ticker's file are
\* strictly increasing, so each timestamp has one row.
C10_TimestampsUnique ==
    rPc = "done" =>
        \A i, j \in 1..Len(rOut) : i < j => rOut[i].t < rOut[j].t

\* C18 (as the code behaves): for the range 2024-01-01 to 2024-03-10 the
\* chunker yields exactly (2024-01-01, 2024-02-15) and (2024-02-16,
\* 2024-03-10): chunk_end is current + 45 days, so a chunk covers up to 46
\* calendar days counted inclusively; and for every range no chunk covers
\* more than ChunkDays + 1 days.
C18_Start == <<2024, 1, 1>>
C18_End == <<2024, 3, 10>>

C18_ScenarioRange ==
    /\ cPc = "done"
    /\ strftime(cStart) = C18_Start
    /\ strftime(cEnd) = C18_End

C18_ChunksOf46Days ==
    /\ C18_ScenarioRange =>
          ChunkStrings(cChunks) = << <<C18_Start, <<2024, 2, 15>> >>,
                                     << <<2024, 2, 16>>, C18_End>> >>
    /\ \A i \in 1..Len(cChunks) :
          cChunks[i][2] - cChunks[i][1] + 1 <= ChunkDays + 1

\* the scenario's range has been chunked, and read back from the strings
C18_Witness ==
    /\ C18_ScenarioRange
    /\ cStart = strptime(C18_Start)
    /\ cEnd = strptime(C18_End)
    /\ Len(cChunks) = 2

\* C18 as stated: the two chunks are (2024-01-01, 2024-02-14) and
\* (2024-02-15, 2024-03-10), and every chunk covers at most 45 days
C18_AsStated ==
    /\ C18_ScenarioRange =>
          ChunkStrings(cChunks) = << <<C18_Start, <<2024, 2, 14>> >>,
                                     << <<2024, 2, 15>>, C18_End>> >>
    /\ \A i \in 1..Len(cChunks) :
          cChunks[i][2] - cChunks[i][1] + 1 <= ChunkDays

\* C17: _load_progress returns the stored completed_tickers as a set when
\* the progress file is present and well-formed (a JSON object whose
\* completed_tickers is a list of strings), and the empty set when the file
\* is absent, is not valid JSON, or is valid JSON of any other shape.
C17_WellFormed(file) ==
    /\ file.state = "whole"
    /\ ~JsonLoadRaises(file)
    /\ json_load(file).kind = "object"
    /\ "completed_tickers" \in DOMAIN json_load(file).members
    /\ LET v == json_load(file).members["completed_tickers"]
       IN  /\ v.kind = "array"
           /\ \A i \in 1..Len(v.items) : v.items[i].kind = "string"

C17_LoadFailsSoft ==
    lPc = "done" =>
        IF C17_WellFormed(lFile)
        THEN lOut = PySet(json_load(lFile).members["completed_tickers"])
        ELSE lOut = {}

\* the tasks a thread has taken off the queue in this run that have not
\* ended yet
InFlight == (submitted \ SeqRange(queue)) \ (returned \cup raised)

\* C14: while download_all_data runs with max_workers threads, at most
\* max_workers tasks are in flight, and each of them is still being run by
\* a thread of its own: no thread starts a task before its task has ended.
C14_AtMostNInFlight ==
    mainPc = "running" =>
        /\ Cardinality(InFlight) <= max_workers
        /\ \A s \in InFlight :
              \E w \in Workers : w <= max_workers /\ pc[w] # "idle" /\ ticker[w] = s

\* a pool of one thread is running a task while another one is queued
C14_Witness ==
    /\ mainPc = "running"
    /\ max_workers = 1
    /\ queue # <<>>
    /\ Cardinality(InFlight) = 1

\* the requests for s of this run that failed: fatal status or exception
Failures(s) ==
    {j \in 1..Len(answers[s]) : answers[s][j][2] \in {"other status", "exception"}}

\* the rows of the chunks of s a request of this run was answered 200 for,
\* in the order of the requests
RECURSIVE RowsOf(_, _)
RowsOf(s, log) ==
    IF log = <<>> THEN <<>>
    ELSE (IF Head(log)[2] = "200"
          THEN FirstPage(ServiceRows(s, date_chunks[Head(log)[1]])) ELSE <<>>)
         \o RowsOf(s, Tail(log))

\* the task of s has run its loop in this run and has returned
Fetched(s) == s \in returned /\ answers[s] # <<>>

\* C12, the chunks and the rows: a task in which a request failed has still
\* requested every chunk, and has written the rows of all its successful
\* chunks (no file when there is none)
C12_LaterChunksRequested ==
    \A s \in Symbols :
        Fetched(s) /\ Failures(s) # {} => requested[s] = AllChunks

C12_SuccessfulRowsWritten ==
    \A s \in Symbols :
        Fetched(s) /\ Failures(s) # {} =>
            IF RowsOf(s, answers[s]) = <<>>
            THEN outFile[s] = Absent
            ELSE outFile[s] = CsvFile(RowsOf(s, answers[s]), TRUE)

\* C12, the counter: when the run has ended, failed_calls counts every
\* request that failed
C12_FailuresCounted ==
    mainPc = "done" /\ runs > 0 =>
        stats["failed_calls"] =
            Cardinality({<<s, j>> \in Symbols \X (1..Len(date_chunks)) :
                            j \in Failures(s)})

\* C12: a chunk whose request returns a fatal status or raises is counted
\* in failed_calls and does not abort the symbol: every later chunk is
\* still requested and the rows of all successful chunks are written.
C12_FailedChunkDoesNotAbort ==
    /\ C12_FailuresCounted
    /\ C12_LaterChunksRequested
    /\ C12_SuccessfulRowsWritten

\* every chunk has been requested once in this run, in order, and each
\* request has been answered 200
AllAnswered200(s) ==
    /\ Len(answers[s]) = Len(date_chunks)
    /\ \A i \in 1..Len(answers[s]) : answers[s][i] = <<i, "200">>

\* the bars the service holds for s in the chunks of the range
RowsInRange(s) ==
    SelectSeq(ServiceBars(s),
              LAMBDA b : \E i \in AllChunks :
                            b.t \in date_chunks[i][1]..date_chunks[i][2])

\* C19: a task whose chunks are all answered 200, some with bars and the
\* others without, leaves a complete output file holding exactly the bars
\* returned, in ascending order of timestamp, and its ticker in the completed
\* set, in memory and in the progress file.
C19_ReturnedRowsWritten ==
    \A s \in Symbols :
        Fetched(s) /\ AllAnswered200(s) /\ RowsInRange(s) # <<>> =>
            /\ outFile[s] = CsvFile(RowsInRange(s), TRUE)
            /\ IsAscending(outFile[s].rows)
            /\ s \in completed_tickers
            /\ progressFile.state = "whole" => s \in LoadProgress(progressFile)

\* "A" has bars in the first chunk and none in the second, and its task has
\* returned after two answers 200
C19_Witness ==
    /\ Fetched("A")
    /\ AllAnswered200("A")
    /\ ServiceRows("A", date_chunks[1]) # <<>>
    /\ ServiceRows("A", date_chunks[2]) = <<>>
    /\ outFile["A"].state = "whole"

\* the requests of this run for chunk i of s that were answered resp
AnswersFor(s, i, resp) ==
    {j \in 1..Len(answers[s]) : answers[s][j] = <<i, resp>>}

\* the service rate-limits the first request of the task of s and answers
\* 200 to every other one
RateLimitedOnce(s) ==
    /\ answers[s] # <<>>
    /\ answers[s][1][2] = "429"
    /\ \A j \in 2..Len(answers[s]) : answers[s][j][2] = "200"

\* C20: when the first request of a chunk is answered 429 and the next
\* attempt is answered 200, the chunk is counted once in successful_calls and
\* not in failed_calls: a task whose first request is rate-limited and whose
\* other requests all succeed ends with one successful request for each
\* chunk, the rate-limited one included, and no failed one.
C20_RateLimitedChunkSucceedsOnce ==
    \A s \in Symbols :
        Fetched(s) /\ RateLimitedOnce(s) =>
            \A i \in AllChunks :
                /\ Cardinality(AnswersFor(s, i, "200")) = 1
                /\ AnswersFor(s, i, "other status") = {}
                /\ AnswersFor(s, i, "exception") = {}

\* C11: a ticker whose task has returned after an empty 200 answer to every
\* chunk has no output file, is in the completed set of every later run,
\* in memory and (whenever no process is running) on disk, and is not
\* submitted again.
C11_EmptySymbolNotFetchedAgain ==
    \A s \in emptyDone :
        /\ outFile[s] = Absent
        /\ mainPc # "off" =>
              /\ s \in completed_tickers
              /\ s \in submitted => s \in returned
        /\ mainPc \in {"off", "done"} => s \in LoadProgress(progressFile)

\* C16: a ticker whose task has ended with an exception of a file operation
\* (and has not returned since) is not in the completed set, in memory or
\* on disk, and a later task of it that reaches _save_progress has requested
\* every chunk.
C16_FailedTaskFetchedAgain ==
    \A s \in raised :
        /\ s \notin completed_tickers
        /\ s \notin LoadProgress(progressFile)
        /\ s \in saved => requested[s] = AllChunks

\* C13, the equities downloader: when download_all_data has ended, every
\* ticker it has submitted has had its task run to its end, by a return or
\* by an exception
C13_EquitiesRunContinues ==
    mainPc = "done" => submitted \subseteq (returned \cup raised)

\* C13, the FX loader: when the script has ended, it has called
\* fetch_aggs_month for every month chunk of every pair of PAIRS
C13_FxRunContinues ==
    fxPc \in {"done", "crashed"} =>
        \A p \in 1..Len(PAIRS), i \in 1..Len(fx_chunks) :
            \E j \in 1..Len(fxCalls) : fxCalls[j][1] = p /\ fxCalls[j][2] = i

\* C13: no failure of a chunk or of a symbol ends the run, in either
\* pipeline: every remaining symbol or pair is still processed.
C13_NoFailureEndsRun ==
    /\ C13_EquitiesRunContinues
    /\ C13_FxRunContinues

\* C15: tasks are isolated: whatever happens to the other tasks (an
\* exception of a file operation ends them, or they are slow), every ticker
\* submitted to the pool has its task ended, by a return or by an exception
\* caught at future.result(), and download_all_data reaches its summary.
C15_TasksIsolated ==
    (mainPc = "running")
        ~> (mainPc = "done" /\ submitted \subseteq (returned \cup raised))

\* a first run has reached its summary after one task has raised and
\* another has returned
C15_Witness ==
    /\ mainPc = "done"
    /\ runs = 1
    /\ submitted = Symbols
    /\ raised # {}
    /\ returned # {}

\* the month a day lies in, counted from year 0, and that month's last day
MonthIndex(day) == strftime(day)[1] * 12 + strftime(day)[2]
MonthEnd(day) == NextMonth(MonthStart(day)) - 1

\* C21: for every start <= end, month_chunks yields one chunk per calendar
\* month the range touches, in order; each chunk runs from the first to the
\* last day of its month, except that the first starts at start and the
\* last ends at end; the chunks are contiguous, do not overlap and cover
\* exactly [start, end].
C21_MonthChunks ==
    mPc = "done" =>
        LET n == Len(mChunks)
        IN  /\ n = MonthIndex(mEnd) - MonthIndex(mStart) + 1
            /\ mChunks[1][1] = mStart
            /\ mChunks[n][2] = mEnd
            /\ \A i \in 1..n :
                  /\ mChunks[i][1] <= mChunks[i][2]
                  /\ MonthIndex(mChunks[i][1]) = MonthIndex(mStart) + i - 1
                  /\ MonthIndex(mChunks[i][2]) = MonthIndex(mStart) + i - 1
                  /\ i > 1 => mChunks[i][1] = MonthStart(mChunks[i][1])
                  /\ i < n => mChunks[i][2] = MonthEnd(mChunks[i][2])
            /\ \A i \in 1..(n - 1) : mChunks[i + 1][1] = mChunks[i][2] + 1
            /\ DaysOf(mChunks) = mStart..mEnd

\* a range from the middle of December to the middle of a later month of
\* the next year has been chunked
C21_Witness ==
    /\ mPc = "done"
    /\ Len(mChunks) >= 3
    /\ strftime(mStart)[1] < strftime(mEnd)[1]
    /\ mStart # MonthStart(mStart)
    /\ mEnd # MonthEnd(mEnd)

\* the outcomes of a fetch the specification classifies as fatal: an HTTP
\* 4xx status other than 429, a malformed response
FxFatal == {"HTTPError 4xx", "other exception"}

\* C22 (FX half): after a call of fetch_aggs_month that failed fatally
\* there is no later call for the same pair and month.
C22_FxFatalNotRetried ==
    \A j \in 1..Len(fxCalls) : \A k \in 1..Len(fxCalls) :
        (/\ j < k
         /\ fxCalls[j][3] \in FxFatal)
        => <<fxCalls[k][1], fxCalls[k][2]>> # <<fxCalls[j][1], fxCalls[j][2]>>

\* the answers of a request the specification classifies as fatal
Fatal == {"404", "malformed"}

\* C22 (equities half): a chunk answered fatally is not requested again
\* by the task, and the failure is counted at once.
C22_EquitiesFatalNotRetried ==
    \A s \in Symbols : \A j \in 1..Len(answers[s]) :
        answers[s][j][2] \in Fatal
        => /\ \A k \in (j + 1)..Len(answers[s]) : answers[s][k][1] # answers[s][j][1]
           /\ \A w \in Workers :
                 (/\ j = Len(answers[s])
                  /\ ticker[w] = s
                  /\ chunkIdx[w] = answers[s][j][1])
                 => pc[w] = "failed_calls"

\* C22: a fatal failure of a fetch is never retried, in the equities
\* downloader and in the FX retry wrapper.
C22_FatalNeverRetried ==
    /\ C22_EquitiesFatalNotRetried
    /\ C22_FxFatalNotRetried

\* the tasks of this run that were called for a ticker outside the
\* completed set while its output file was on disk
FoundOnDisk == {s \in returned : s \notin loaded /\ file0[s] # Absent}

\* C23: a task for a ticker that is not completed but whose output file
\* exists issues no request, leaves the file as it was, adds the ticker to
\* the completed set in memory and in the progress file (whenever that
\* file is not in the middle of a rewrite, it lists the ticker), and
\* returns True.
C23_ExistingFileBackfilled ==
    \A s \in FoundOnDisk :
        /\ requested[s] = {}
        /\ outFile[s] = file0[s]
        /\ mainPc # "off" => s \in completed_tickers
        /\ progressFile.state = "whole" => s \in LoadProgress(progressFile)
        /\ result[s] = TRUE

C23_Witness ==
    /\ mainPc = "done"
    /\ \E s \in FoundOnDisk :
          /\ outFile[s].state = "whole"
          /\ s \in LoadProgress(progressFile)
          /\ s \in completed_tickers

\* C24: the request that follows a request answered 429 in a task is for
\* the same chunk, and a task does not leave its loop on a 429.
C24_RateLimitedChunkRequestedAgain ==
    \A s \in Symbols : \A j \in 1..Len(answers[s]) :
        answers[s][j][2] = "429"
        => /\ j < Len(answers[s]) => answers[s][j + 1][1] = answers[s][j][1]
           /\ j = Len(answers[s]) => s \notin terminal

\* the answers of a request the specification classifies as transient
Transient == {"500", "timeout"}

\* C25: the first transient failure of a chunk in a task is followed by a
\* further request for that chunk: the task neither goes on to another
\* chunk nor ends on it.
C25_TransientFailureRetried ==
    \A s \in Symbols : \A j \in 1..Len(answers[s]) :
        (/\ answers[s][j][2] \in Transient
         /\ \A k \in 1..(j - 1) : answers[s][k][1] # answers[s][j][1])
        => /\ j < Len(answers[s]) => answers[s][j + 1][1] = answers[s][j][1]
           /\ j = Len(answers[s]) => s \notin terminal

\* the task of s has returned in this run and none of its requests, one
\* at least, was answered 200
EveryRequestFailed(s) ==
    /\ Fetched(s)
    /\ \A j \in 1..Len(answers[s]) : answers[s][j][2] # "200"

\* C26: a task none of whose requests succeeded returns False.
C26_FailedDownloadReturnsFalse ==
    \A s \in Symbols : EveryRequestFailed(s) => result[s] = FALSE

\* the frames a task has appended to all_data after the requests of log:
\* one per request answered 200 with rows, in the order of the requests
RECURSIVE FramesOf(_, _)
FramesOf(s, log) ==
    IF log = <<>> THEN <<>>
    ELSE LET rows == FirstPage(ServiceRows(s, date_chunks[Head(log)[1]]))
         IN  (IF Head(log)[2] = "200" /\ rows # <<>> THEN <<rows>> ELSE <<>>)
             \o FramesOf(s, Tail(log))

\* C27: the requests of a task are for chunks in ascending date order, a
\* thread about to request a chunk has the answers of all its earlier
\* requests, which are for earlier chunks, and all_data holds the frames
\* in the order of the requests.
C27_ChunksInOrder ==
    /\ \A s \in Symbols : \A j \in 1..Len(answers[s]) : \A k \in 1..Len(answers[s]) :
          j < k => date_chunks[answers[s][j][1]][2] < date_chunks[answers[s][k][1]][1]
    /\ \A w \in Workers :
          (ticker[w] # None /\ chunkIdx[w] >= 1)
          => /\ all_data[w] = FramesOf(ticker[w], answers[ticker[w]])
             /\ pc[w] \in {"loop", "call"}
                => \A j \in 1..Len(answers[ticker[w]]) :
                      answers[ticker[w]][j][1] < chunkIdx[w]

C27_Witness ==
    \E w \in Workers :
        /\ pc[w] = "combine"
        /\ Len(all_data[w]) = 2
        /\ answers[ticker[w]] = <<<<1, "200">>, <<2, "200">>>>

\* C27 (FX half): the calls of fetch_aggs_month go pair by pair and, within
\* a pair, month by month in ascending order.
C27_FxMonthsInOrder ==
    \A j \in 1..Len(fxCalls) : \A k \in 1..Len(fxCalls) :
        j < k => \/ fxCalls[j][1] < fxCalls[k][1]
                 \/ /\ fxCalls[j][1] = fxCalls[k][1]
                    /\ fxCalls[j][2] <= fxCalls[k][2]

\* output_file = self.base_path / f"{ticker}_1min.csv"
output_file(t) == <<t, "_1min.csv">>

\* the tickers whose task a pool thread is running
Running == {ticker[w] : w \in {v \in Workers : ticker[v] # None}}

\* C28: two threads never run tasks with the same output path, and a
\* ticker is submitted at most once in a run: it is queued once, and a
\* queued ticker is neither running nor finished.
C28_OneWriterPerFile ==
    /\ \A v \in Workers : \A w \in Workers :
          (v # w /\ ticker[v] # None /\ ticker[w] # None)
          => output_file(ticker[v]) # output_file(ticker[w])
    /\ \A i \in 1..Len(queue) : \A j \in 1..Len(queue) : i # j => queue[i] # queue[j]
    /\ mainPc = "running" =>
          /\ SeqRange(queue) \cap Running = {}
          /\ SeqRange(queue) \cap returned = {}
          /\ Running \cap returned = {}

C28_Witness ==
    /\ pc[1] = "to_csv"
    /\ pc[2] \in {"call", "combine", "save"}
    /\ ticker[1] # ticker[2]

\* C29: after a request answered 200, the frame of the chunk holds every
\* bar the service has for the chunk, whatever the number of pages the
\* service splits them over.
C29_AllPagesFetched ==
    \A w \in Workers :
        pc[w] = "successful_calls"
        => df[w] = ServiceRows(ticker[w], date_chunks[chunkIdx[w]])

Answered(kinds) ==
    LET n(s) == Cardinality({j \in 1..Len(answers[s]) : answers[s][j][2] \in kinds})
    IN  n("A") + n("B")

\* C31: with the tasks run one at a time, after every task
\* total_api_calls = successful_calls + failed_calls + the number of 429
\* answers; successful_calls is the number of 200 answers, with or without
\* results, failed_calls the number of other statuses and exceptions.
C31_CountersAddUp ==
    (mainPc \in {"running", "done"} /\ \A w \in Workers : pc[w] = "idle") =>
        /\ stats["total_api_calls"]
              = stats["successful_calls"] + stats["failed_calls"] + Answered({"429"})
        /\ stats["total_api_calls"] = Answered(TaskResponses)
        /\ stats["successful_calls"] = Answered({"200"})
        /\ stats["failed_calls"] = Answered(TaskResponses \ {"200", "429"})

C31_Witness ==
    /\ \A w \in Workers : pc[w] = "idle"
    /\ mainPc = "done"
    /\ answers["A"] = <<<<1, "200">>, <<2, "429">>>>
    /\ answers["B"] = <<<<1, "200">>, <<2, "500">>>>
    /\ stats["total_api_calls"] = 4

\* the rows the k-th call of fetch_aggs_month returned, and the file of
\* its month
FxReturned(k) == FxRows(PAIRS[fxCalls[k][1]], fx_chunks[fxCalls[k][2]])
FxFileOf(k) == MonthFile(PAIRS[fxCalls[k][1]], fx_chunks[fxCalls[k][2]])

\* the calls of fetch_aggs_month that returned a frame which
\* save_month_parquet has been called with, and has returned from
FxSaved ==
    {k \in 1..Len(fxCalls) :
        /\ fxCalls[k][3] = "rows"
        /\ k = Len(fxCalls) => fxPc \notin {"save", "crashed"}}

\* C32, the paths: the months of month_chunks map to pairwise distinct
\* files of a pair.
C32_MonthPathsDistinct ==
    /\ \A p \in 1..Len(PAIRS) : \A i \in 1..Len(fx_chunks) : \A j \in 1..Len(fx_chunks) :
          i # j => MonthFile(PAIRS[p], fx_chunks[i]) # MonthFile(PAIRS[p], fx_chunks[j])
    /\ mPc = "done" =>
          \A i \in 1..Len(mChunks) : \A j \in 1..Len(mChunks) :
              i # j => MonthFile(PAIRS[1], mChunks[i]) # MonthFile(PAIRS[1], mChunks[j])

\* C32: a month file is on disk if and only if the fetch of its month
\* returned at least one row (and save_month_parquet has returned); it
\* holds those rows; no file is written by two fetches.
C32_MonthFileIffRows ==
    /\ \A f \in DOMAIN fxFiles :
          \E k \in FxSaved :
              FxFileOf(k) = f /\ FxReturned(k) # <<>> /\ fxFiles[f] = FxReturned(k)
    /\ \A k \in FxSaved :
          /\ FxReturned(k) # <<>> => FxFileOf(k) \in DOMAIN fxFiles
          /\ FxReturned(k) = <<>> => FxFileOf(k) \notin DOMAIN fxFiles
    /\ \A j \in FxSaved : \A k \in FxSaved :
          (j # k /\ FxReturned(j) # <<>> /\ FxReturned(k) # <<>>)
          => FxFileOf(j) # FxFileOf(k)
    /\ C32_MonthPathsDistinct

C32_Witness ==
    /\ fxPc = "done"
    /\ Cardinality(DOMAIN fxFiles) = 3
    /\ \E k \in FxSaved : FxReturned(k) = <<>>

====
